---- MODULE Spec2Model ----
(***************************************************************************)
(* The notebook r5py_example.ipynb: the module-level travel-time table     *)
(* tt_df and the helper plot_tts_to_destination(dest_id, travel_times,     *)
(* origins, destinations), modelled statement by statement.                *)
(***************************************************************************)
EXTENDS Integers, Sequences, FiniteSets, TLC

VARIABLES
    tt_df,          \* module-level table assigned by the compute cell
    travel_times,   \* the table the caller passes as `travel_times`
    origins,        \* the frame the caller passes as `origins`
    destinations,   \* the frame the caller passes as `destinations`
    dest_id,        \* the identifier the caller passes as `dest_id`
    pc,             \* position inside plot_tts_to_destination
    plot_df,        \* local: filtered table (<<>> unbound, <<frame>> bound)
    plot_gdf,       \* local: joined frame (<<>> unbound, <<frame>> bound)
    m,              \* local: the folium map (<<>> unbound, <<map>> bound)
    result,         \* what the call gave its caller
    args0,          \* the arguments as they were when the call started
    prev            \* the preceding call with the same arguments, if any

vars == <<tt_df, travel_times, origins, destinations, dest_id, pc,
          plot_df, plot_gdf, m, result, args0, prev>>

----------------------------------------------------------------------------
(* Bounds of the model *)

MaxRows == 2

\* supermarket_id = 2 in the notebook's last cell
supermarket_id == 2

OriginIds == {1, 2}
DestIds == {1, 2}
Minutes == {10, 25}

----------------------------------------------------------------------------
(* Values *)

NaN == <<>>
Num(t) == <<t>>
isna(v) == v = NaN

None == <<>>
Some(x) == <<x>>

Times == {NaN} \cup {Num(t) : t \in Minutes}

Records == [from_id : OriginIds, to_id : DestIds, travel_time : Times]

Point(k) == [type |-> "Point", at |-> k]

SeqsUpTo(S, n) == UNION {[1..k -> S] : k \in 0..n}

\* A frame of geometries: row k carries the k-th point.
GeoFrame(ids) == [k \in 1..Len(ids) |-> [id |-> ids[k], geometry |-> Point(k)]]

\* compute_travel_times() emits its records origin by origin and, for one
\* origin, destination by destination.
InMatrixOrder(t) ==
    \A k \in 1..(Len(t) - 1) :
        \/ t[k].from_id < t[k + 1].from_id
        \/ t[k].from_id = t[k + 1].from_id /\ t[k].to_id <= t[k + 1].to_id

\* The passed table holds at least one record.
Tables == {t \in SeqsUpTo(Records, MaxRows) : t # <<>> /\ InMatrixOrder(t)}
OriginFrames == {GeoFrame(ids) : ids \in SeqsUpTo(OriginIds, Cardinality(OriginIds))}
DestFrames == {GeoFrame(ids) : ids \in SeqsUpTo(DestIds, Cardinality(DestIds))}

\* Outcomes of compute_travel_times(): one record towards each destination
\* of some set of destinations.
RECURSIVE SetToSeq(_)
SetToSeq(S) ==
    IF S = {} THEN <<>>
    ELSE LET x == CHOOSE y \in S : \A z \in S : y <= z
         IN <<x>> \o SetToSeq(S \ {x})

ComputedTables ==
    {[k \in 1..Len(SetToSeq(D)) |->
        [from_id |-> 1, to_id |-> SetToSeq(D)[k], travel_time |-> Num(10)]]
     : D \in SUBSET DestIds}

----------------------------------------------------------------------------
(* pandas / geopandas / folium operations used by the function *)

Column(frame, name) == [k \in 1..Len(frame) |-> frame[k][name]]

Range(s) == {s[k] : k \in 1..Len(s)}

\* x in Series.unique()
InUnique(x, column) == x \in Range(column)

\* The selection followed by dropna(subset=["travel_time"]).
FilterToDropNa(table, d) ==
    SelectSeq(table, LAMBDA r : r.to_id = d /\ r.travel_time # NaN)

\* travel_times[travel_times["to_id"] == dest_id].copy()
FilterTo(table, d) == SelectSeq(table, LAMBDA r : r.to_id = d)

\* A test that is false of an empty series.
AllNaNonEmpty(column) ==
    column # <<>> /\ \A k \in 1..Len(column) : isna(column[k])

\* all(series.isna()): true of an empty series
AllNa(column) == \A k \in 1..Len(column) : isna(column[k])

\* The joined row after fillna(0).
JoinRowFillZero(o, r) ==
    [geometry |-> o.geometry, from_id |-> r.from_id, to_id |-> r.to_id,
     travel_time |-> IF r.travel_time = NaN THEN Num(0) ELSE r.travel_time]

JoinRow(o, r) ==
    [geometry |-> o.geometry, from_id |-> r.from_id, to_id |-> r.to_id,
     travel_time |-> r.travel_time]

RECURSIVE MergeFrom(_, _, _)
MergeFrom(left, right, i) ==
    IF i > Len(left) THEN <<>>
    ELSE LET o == left[i]
             match == SelectSeq(right, LAMBDA r : r.from_id = o.id)
         IN [k \in 1..Len(match) |-> JoinRow(o, match[k])]
            \o MergeFrom(left, right, i + 1)

\* The same merge with how="left": a left row without a match is kept, the
\* columns of the right side missing.
RECURSIVE MergeLeftFrom(_, _, _)
MergeLeftFrom(left, right, i) ==
    IF i > Len(left) THEN <<>>
    ELSE LET o == left[i]
             match == SelectSeq(right, LAMBDA r : r.from_id = o.id)
         IN (IF match = <<>>
             THEN <<[geometry |-> o.geometry, from_id |-> NaN, to_id |-> NaN,
                     travel_time |-> NaN]>>
             ELSE [k \in 1..Len(match) |-> JoinRow(o, match[k])])
            \o MergeLeftFrom(left, right, i + 1)

MergeLeft(left, right) == MergeLeftFrom(left, right, 1)

\* origins.merge(plot_df, left_on="id", right_on="from_id").drop(columns=["id"])
\* (how defaults to "inner")
Merge(left, right) == MergeFrom(left, right, 1)

ValueError(msg) == [kind |-> "error", type |-> "ValueError", msg |-> msg]

\* The message without the identifier.
NotFoundMsgNoId(d) == <<"Destination ID not found">>

NotFoundMsg(d) == <<"Destination ID ", ToString(d), " not found">>
NoTimesMsg(d) == <<"No travel times to destination ID ", ToString(d)>>

NoResult == [kind |-> "none"]

\* gdf.explore(..., m=m): draws the rows of gdf as one more layer of m, on a
\* new map when no m is passed.
Explore(gdf, style, base) ==
    LET layer == [style |-> style, features |-> gdf]
    IN IF base = None
       THEN Some([tiles |-> "CartoDB positron", layers |-> <<layer>>])
       ELSE Some([base[1] EXCEPT !.layers = Append(@, layer)])

OriginsStyle ==
    [column |-> "travel_time", caption |-> "Median travel time (minutes)"]

MarkerStyle ==
    [marker_type |-> "marker", color |-> "red", prefix |-> "fa",
     icon |-> "flag-checkered"]

\* The selection without its mask: every destination is drawn.
SelectDestinationAll(frame, d) == frame

\* destinations[destinations["id"] == dest_id][["geometry", "id"]]
SelectDestination(frame, d) == SelectSeq(frame, LAMBDA r : r.id = d)

\* The selected rows taken out of the source table instead of copied.
AfterSelectMove(table, d) == SelectSeq(table, LAMBDA r : r.to_id # d)

\* Boolean-mask selection followed by .copy() leaves the source table as it was.
AfterSelectCopy(table, d) == table

\* The merge written back into the left operand: only matched rows stay.
AfterMergeInPlace(left, right) ==
    SelectSeq(left, LAMBDA o : \E k \in 1..Len(right) : right[k].from_id = o.id)

\* merge() and drop() return new frames; the left operand stays as it was.
AfterMerge(left, right) == left

\* The same statements with the marker drawn before the origins layer.
StepAfterMarkerFirst(p) ==
    CASE p = "check" -> "filter"
      [] p = "filter" -> "reach"
      [] p = "reach" -> "join"
      [] p = "join" -> "dest_layer"
      [] p = "dest_layer" -> "origins_layer"
      [] p = "origins_layer" -> "done"

\* The same statements with the join moved before the reachability check.
StepAfterJoinFirst(p) ==
    CASE p = "check" -> "filter"
      [] p = "filter" -> "join"
      [] p = "join" -> "reach"
      [] p = "reach" -> "origins_layer"
      [] p = "origins_layer" -> "dest_layer"
      [] p = "dest_layer" -> "done"

\* The statements of plot_tts_to_destination in the order they are written.
StepAfter(p) ==
    CASE p = "check" -> "filter"
      [] p = "filter" -> "reach"
      [] p = "reach" -> "join"
      [] p = "join" -> "origins_layer"
      [] p = "origins_layer" -> "dest_layer"
      [] p = "dest_layer" -> "done"

----------------------------------------------------------------------------
(* State *)

Args(d) ==
    [dest_id |-> d, travel_times |-> travel_times, origins |-> origins,
     destinations |-> destinations]

\* The passed table was computed for the passed frames: its from_id are ids
\* of origins, its to_id are ids of destinations.
ComputedFor(table, o, ds) ==
    /\ Range(Column(table, "from_id")) \subseteq Range(Column(o, "id"))
    /\ Range(Column(table, "to_id")) \subseteq Range(Column(ds, "id"))

Init ==
    /\ tt_df \in ComputedTables
    /\ travel_times \in Tables
    /\ origins \in OriginFrames
    /\ destinations \in DestFrames
    /\ ComputedFor(travel_times, origins, destinations)
    /\ dest_id = supermarket_id
    /\ pc = "idle"
    /\ plot_df = None
    /\ plot_gdf = None
    /\ m = None
    /\ result = NoResult
    /\ args0 = None
    /\ prev = None

inputs == <<travel_times, origins, destinations>>
locals == <<plot_df, plot_gdf, m>>

\* The compute cell is run again: tt_df = tt_computer.compute_travel_times()
RecomputeTtDf ==
    /\ pc \in {"idle", "done"}
    /\ \E t \in ComputedTables : t # tt_df /\ tt_df' = t
    /\ pc' = "idle"
    /\ UNCHANGED <<inputs, dest_id, locals, result, args0, prev>>

\* The last cell is run: plot_tts_to_destination(d, travel_times, origins,
\* destinations). prev keeps the outcome of the call before when that call
\* had the same arguments; direct tells that nothing ran in between.
Call(d) ==
    /\ pc \in {"idle", "done"}
    /\ dest_id' = d
    /\ pc' = "check"
    /\ plot_df' = None /\ plot_gdf' = None /\ m' = None
    /\ result' = NoResult
    /\ args0' = Some(Args(d))
    /\ prev' = IF result.kind # "none" /\ d = dest_id
               THEN Some([args |-> args0[1], result |-> result,
                          direct |-> (pc = "done")])
               ELSE None
    /\ UNCHANGED <<tt_df, inputs>>

Raise(e) ==
    /\ result' = e
    /\ pc' = "done"

\* if dest_id not in tt_df["to_id"].unique(): raise ValueError(...)
CheckExists ==
    /\ pc = "check"
    /\ IF ~InUnique(dest_id, Column(tt_df, "to_id"))
       THEN Raise(ValueError(NotFoundMsg(dest_id)))
       ELSE pc' = StepAfter(pc) /\ UNCHANGED result
    /\ UNCHANGED <<tt_df, inputs, dest_id, locals, args0, prev>>

\* plot_df = travel_times[travel_times["to_id"] == dest_id].copy()
Filter ==
    /\ pc = "filter"
    /\ plot_df' = Some(FilterTo(travel_times, dest_id))
    /\ travel_times' = AfterSelectCopy(travel_times, dest_id)
    /\ pc' = StepAfter(pc)
    /\ UNCHANGED <<tt_df, origins, destinations, dest_id, plot_gdf, m, result,
                   args0, prev>>

\* if all(plot_df["travel_time"].isna()): raise ValueError(...)
CheckReachable ==
    /\ pc = "reach"
    /\ IF AllNa(Column(plot_df[1], "travel_time"))
       THEN Raise(ValueError(NoTimesMsg(dest_id)))
       ELSE pc' = StepAfter(pc) /\ UNCHANGED result
    /\ UNCHANGED <<tt_df, inputs, dest_id, locals, args0, prev>>

\* plot_gdf = origins.merge(plot_df, left_on="id", right_on="from_id")
\*                   .drop(columns=["id"])
Join ==
    /\ pc = "join"
    /\ plot_gdf' = Some(Merge(origins, plot_df[1]))
    /\ origins' = AfterMerge(origins, plot_df[1])
    /\ pc' = StepAfter(pc)
    /\ UNCHANGED <<tt_df, travel_times, destinations, dest_id, plot_df, m,
                   result, args0, prev>>

\* m = plot_gdf.explore("travel_time", tiles=..., legend_kwds=...)
ExploreOrigins ==
    /\ pc = "origins_layer"
    /\ m' = Explore(plot_gdf[1], OriginsStyle, None)
    /\ pc' = StepAfter(pc)
    /\ UNCHANGED <<tt_df, inputs, dest_id, plot_df, plot_gdf, result, args0,
                   prev>>

\* destination = destinations[destinations["id"] == dest_id][["geometry", "id"]]
\* m = destination.explore(marker_type="marker", marker_kwds=..., m=m)
\* return m
ExploreDestination ==
    /\ pc = "dest_layer"
    /\ LET destination == SelectDestination(destinations, dest_id)
       IN m' = Explore(destination, MarkerStyle, m)
    /\ result' = [kind |-> "map", m |-> m'[1]]
    /\ pc' = StepAfter(pc)
    /\ UNCHANGED <<tt_df, inputs, dest_id, plot_df, plot_gdf, args0, prev>>

Next ==
    \/ RecomputeTtDf
    \/ \E d \in DestIds : Call(d)
    \/ CheckExists
    \/ Filter
    \/ CheckReachable
    \/ Join
    \/ ExploreOrigins
    \/ ExploreDestination

Spec == Init /\ [][Next]_vars

----------------------------------------------------------------------------
(* Vocabulary of the properties *)

Finished == pc = "done"
Returned == pc = "done" /\ result.kind = "map"
Passed == args0[1]

AbsentFrom(table, d) == \A k \in 1..Len(table) : table[k].to_id # d
PresentIn(table, d) == \E k \in 1..Len(table) : table[k].to_id = d
AllMissingFor(table, d) ==
    \A k \in 1..Len(table) : table[k].to_id = d => table[k].travel_time = NaN
ReachableIn(table, d) ==
    \E k \in 1..Len(table) : table[k].to_id = d /\ table[k].travel_time # NaN

NotFoundError == ValueError(NotFoundMsg(dest_id))
NoTimesError == ValueError(NoTimesMsg(dest_id))

UniqueIds(frame) ==
    \A i, j \in 1..Len(frame) : frame[i].id = frame[j].id => i = j
UniquePairs(table) ==
    \A i, j \in 1..Len(table) :
        (table[i].from_id = table[j].from_id /\ table[i].to_id = table[j].to_id)
            => i = j

\* The rows of the joined frame drawn at the point of origin row i.
RowsOf(joined, frame, i) ==
    {k \in 1..Len(joined) : joined[k].geometry = frame[i].geometry}
\* The records of the table from origin row i to destination d.
RecordsOf(table, frame, i, d) ==
    {k \in 1..Len(table) : table[k].from_id = frame[i].id /\ table[k].to_id = d}

MarkerFeatures == result.m.layers[Len(result.m.layers)].features

----------------------------------------------------------------------------
(* C1 *)

\* C1: a call whose identifier does not occur in the to_id column of the
\* passed table ends with the "not found" error.
C1_AbsentIdRaisesNotFound ==
    (Finished /\ AbsentFrom(Passed.travel_times, dest_id))
        => result = NotFoundError

(* C2 *)

\* C2: a call whose identifier occurs in the passed table with every
\* travel_time missing ends with the "no travel times" error.
C2_AllMissingRaisesNoTimes ==
    (Finished /\ PresentIn(Passed.travel_times, dest_id)
              /\ AllMissingFor(Passed.travel_times, dest_id))
        => result = NoTimesError

(* C3 *)

\* C3: the two failures tell the two conditions apart: an identifier absent
\* from the passed table never gives the "no travel times" error, and an
\* identifier present with every travel_time missing never gives the
\* "not found" error.
C3_FailuresTellConditionsApart ==
    Finished =>
        /\ AbsentFrom(Passed.travel_times, dest_id) => result # NoTimesError
        /\ (PresentIn(Passed.travel_times, dest_id)
            /\ AllMissingFor(Passed.travel_times, dest_id))
                => result # NotFoundError

(* C4 *)

C5_ExactlyOneMarker ==
    Returned => (Len(MarkerFeatures) = 1 /\ MarkerFeatures[1].id = dest_id)

\* C5 amended: the marker layer of a returned map holds exactly the rows of
\* the destination frame whose id is the requested one: one feature when the
\* id occurs once in the frame, one per occurrence otherwise.
C5_MarkerIsTheSelectedRows ==
    Returned =>
        LET sel == {k \in 1..Len(destinations) : destinations[k].id = dest_id}
        IN /\ Len(MarkerFeatures) = Cardinality(sel)
           /\ Range(MarkerFeatures) = {destinations[k] : k \in sel}

\* C5 witness: a map returned for a frame of two destinations in which the
\* requested id occurs once.
C5_Witness ==
    /\ Returned
    /\ Len(destinations) = 2
    /\ UniqueIds(destinations)
    /\ Len(MarkerFeatures) = 1
    /\ MarkerFeatures[1].id = dest_id

(* C6 *)

\* C6: two calls with the same four arguments end the same way, whatever
\* else differs between them.
C6_OutcomeFromArgumentsAlone ==
    (Finished /\ prev # None /\ prev[1].args = Passed)
        => result = prev[1].result

(* C7 *)

\* C7: a call made right after a call with the same arguments ends as that
\* call did: the same error, or a map with the same layers and features.
C7_RepeatedCallSameOutcome ==
    (Finished /\ prev # None /\ prev[1].direct)
        => result = prev[1].result

\* C7 witness: a second call in succession returned a map.
C7_Witness ==
    /\ Returned
    /\ prev # None
    /\ prev[1].direct
    /\ prev[1].result.kind = "map"

(* C8 *)

\* C8: during and after a call the passed table and frames hold what they
\* held when the call started.
C8_InputsUnchanged ==
    args0 # None =>
        /\ travel_times = Passed.travel_times
        /\ origins = Passed.origins
        /\ destinations = Passed.destinations

\* C8 witness: a call that filtered rows out of the table and dropped an
\* origin in the join has returned.
C8_Witness ==
    /\ Returned
    /\ Len(plot_df[1]) < Len(travel_times)
    /\ Len(plot_gdf[1]) < Len(origins)

(* C9 *)

\* C9: when the call ends with an error, no join was made and no layer was
\* built; when the error is "not found", the table was not filtered either.
C9_NoPartialView ==
    (Finished /\ result.kind = "error")
        => /\ plot_gdf = None
           /\ m = None
           /\ result = NotFoundError => plot_df = None

\* C9 witness: the call ended with "no travel times" after filtering.
C9_Witness ==
    /\ Finished
    /\ result = NoTimesError
    /\ plot_df # None
    /\ PresentIn(travel_times, dest_id)

(* C10 *)

\* C10: the call returns a map exactly when the identifier occurs in the
\* passed table with at least one travel time; otherwise it ends with an
\* error; a returned map has the origins layer and the marker layer.
C10_MapIffPresentAndReachable ==
    Finished =>
        /\ result.kind = "map" <=> ReachableIn(Passed.travel_times, dest_id)
        /\ result.kind \in {"map", "error"}
        /\ result.kind = "map" =>
             /\ Len(result.m.layers) = 2
             /\ result.m.layers[1].style = OriginsStyle
             /\ result.m.layers[2].style = MarkerStyle

(* C11 *)

\* C11: a destination with at least one travel time in the passed table gives
\* a map and neither error, whether the table leaves out the unreachable
\* pairs or holds them with a missing travel_time.
C11_ReachableGivesView ==
    (Finished /\ ReachableIn(Passed.travel_times, dest_id))
        => /\ result.kind = "map"
           /\ result # NotFoundError
           /\ result # NoTimesError

(* C12 *)

\* C12: when the join is made, each origin whose record for the destination
\* has a missing travel_time has a joined row with a null travel time, and
\* the origins layer of the map draws that row.
C12_MissingValueOriginKept ==
    \A i \in 1..Len(origins) :
        \A j \in RecordsOf(travel_times, origins, i, dest_id) :
            travel_times[j].travel_time = NaN =>
                /\ plot_gdf # None =>
                     \E k \in RowsOf(plot_gdf[1], origins, i) :
                         plot_gdf[1][k].travel_time = NaN
                /\ m # None =>
                     \E k \in RowsOf(m[1].layers[1].features, origins, i) :
                         m[1].layers[1].features[k].travel_time = NaN

\* C12 witness: a map was returned whose origins layer draws one origin with
\* a travel time and another origin with a null travel time.
C12_Witness ==
    /\ Returned
    /\ UniqueIds(origins)
    /\ \E k \in 1..Len(result.m.layers[1].features) :
         result.m.layers[1].features[k].travel_time = NaN
    /\ \E k \in 1..Len(result.m.layers[1].features) :
         result.m.layers[1].features[k].travel_time # NaN

(* C13 *)

\* C13: the message of either error holds the requested identifier as the
\* text the f-string formats it to.
C13_MessageCarriesIdentifier ==
    (Finished /\ result.kind = "error")
        => ToString(dest_id) \in Range(result.msg)

\* C13 witness: the call for identifier 2 ended with the "not found" error.
C13_Witness ==
    /\ Finished
    /\ dest_id = supermarket_id
    /\ result.kind = "error"
    /\ result.msg = NotFoundMsg(supermarket_id)

(* C14 *)

\* C14: in every step of a call, the table is filtered only once the
\* existence check has passed; the reachability check is decided by the
\* filtered subset alone; the join is made only from a filtered subset that
\* passed it; the origins layer is built only from the joined frame, on a
\* new map; the marker layer is added only to a map that has the origins
\* layer.
StepOrder ==
    /\ (plot_df = None /\ plot_df' # None) =>
          /\ pc = "filter"
          /\ InUnique(dest_id, Column(tt_df, "to_id"))
          /\ plot_gdf = None /\ m = None
    /\ (pc = "check" /\ pc' # pc) => plot_df = None
    /\ (pc = "reach" /\ pc' # pc) =>
          /\ plot_df # None
          /\ pc' = "done" <=> \A k \in 1..Len(plot_df[1]) :
                                 plot_df[1][k].travel_time = NaN
    /\ (plot_gdf = None /\ plot_gdf' # None) =>
          /\ plot_df # None
          /\ \E k \in 1..Len(plot_df[1]) : plot_df[1][k].travel_time # NaN
          /\ InUnique(dest_id, Column(tt_df, "to_id"))
          /\ m = None
    /\ (m = None /\ m' # None) =>
          /\ plot_gdf # None
          /\ Len(m'[1].layers) = 1
          /\ m'[1].layers[1].style = OriginsStyle
    /\ (m # None /\ m' # None /\ m' # m) =>
          /\ Len(m[1].layers) = 1
          /\ Len(m'[1].layers) = 2
          /\ m'[1].layers[1] = m[1].layers[1]
          /\ m'[1].layers[2].style = MarkerStyle

C14_StepsInOrder == [][StepOrder]_vars

\* C14 witness: the call stands before the marker step with the origins
\* layer built.
C14_Witness ==
    /\ pc = "dest_layer"
    /\ m # None
    /\ Len(m[1].layers) = 1
    /\ result = NoResult

(* C15 *)

\* C15: at the join and after it the filtered subset is not empty and holds
\* a record with a travel time.
C15_JoinHasTravelTime ==
    (pc = "join" \/ plot_gdf # None)
        => /\ plot_df # None
           /\ plot_df[1] # <<>>
           /\ \E k \in 1..Len(plot_df[1]) : plot_df[1][k].travel_time # NaN

\* C15 witness: the call stands at the join with a filtered subset smaller
\* than the passed table.
C15_Witness ==
    /\ pc = "join"
    /\ plot_df # None
    /\ Len(plot_df[1]) >= 1
    /\ Len(plot_df[1]) < Len(travel_times)

(* C16 *)

\* C16: every joined row is one origin joined with one record of the passed
\* table: the record's from_id is the origin's id, its to_id is the requested
\* identifier, and the row carries the record's travel_time as it is.
C16_RowsComeFromRecords ==
    plot_gdf # None =>
        \A k \in 1..Len(plot_gdf[1]) :
            \E i \in 1..Len(origins) : \E j \in 1..Len(travel_times) :
                /\ plot_gdf[1][k].geometry = origins[i].geometry
                /\ travel_times[j].from_id = origins[i].id
                /\ travel_times[j].to_id = dest_id
                /\ plot_gdf[1][k].from_id = travel_times[j].from_id
                /\ plot_gdf[1][k].to_id = travel_times[j].to_id
                /\ plot_gdf[1][k].travel_time = travel_times[j].travel_time

\* C16 witness: a join was made from a table that also holds a record of
\* another destination; its single row carries the travel time 25 of the
\* one record of the requested destination.
C16_Witness ==
    /\ pc = "origins_layer"
    /\ plot_gdf # None
    /\ \E j \in 1..Len(travel_times) : travel_times[j].to_id # dest_id
    /\ Len(plot_gdf[1]) = 1
    /\ plot_gdf[1][1].travel_time = Num(25)

====
